---- MODULE Spec2Model ----
(***************************************************************************)
(* Model of the_snake.py: the main loop of the snake game, its Snake and   *)
(* Apple objects and the key handling.  Coordinates are pixel coordinates, *)
(* as in the source; a cell is a pair <<x, y>>.                            *)
(***************************************************************************)
EXTENDS Integers, Sequences, FiniteSets, TLC

(* ---- bounds of the model ---------------------------------------------- *)
\* The board is SCREEN_WIDTH x SCREEN_HEIGHT pixels (640 x 480 in the source,
\* i.e. 2*16 by 2*12 cells).  The model keeps the shape (an even number of
\* cells each way, so that the centre is a cell) on smaller boards: a run
\* plays on LargeBoard or on SmallBoard, the smallest board of that shape,
\* which a snake can fill within a few ticks.
HalfCellsW == 2
HalfCellsH == 2
\* On LargeBoard no food is eaten once snake.length has reached MaxLength;
\* on SmallBoard the board itself bounds the snake.
MaxLength == 3

(* ---- the board ------------------------------------------------------- *)
\* The size of the display: (SCREEN_WIDTH, SCREEN_HEIGHT).
VARIABLE screen

(* ---- constants of the program ----------------------------------------- *)
GRID_SIZE == 20
SmallBoard == <<2 * GRID_SIZE, 2 * GRID_SIZE>>
LargeBoard == <<2 * HalfCellsW * GRID_SIZE, 2 * HalfCellsH * GRID_SIZE>>
Boards == {SmallBoard, LargeBoard}
SCREEN_WIDTH == screen[1]
SCREEN_HEIGHT == screen[2]
GRID_WIDTH == SCREEN_WIDTH \div GRID_SIZE
GRID_HEIGHT == SCREEN_HEIGHT \div GRID_SIZE

UP == <<0, -1>>
DOWN == <<0, 1>>
LEFT == <<-1, 0>>
RIGHT == <<1, 0>>
Directions == {UP, DOWN, LEFT, RIGHT}

\* Python's None (falsy, like the empty tuple that stands for it here).
None == <<>>

\* GameObject.__init__: the default position of every game object.
DefaultPosition == <<SCREEN_WIDTH \div 2, SCREEN_HEIGHT \div 2>>

(* ---- helpers ---------------------------------------------------------- *)
Range(s) == {s[i] : i \in 1..Len(s)}

\* random.randint(a, b): the set of its possible results.
randint(a, b) == a..b

\* The cells Apple.randomize_position can draw in one iteration.
SampledPositions ==
    {<<i * GRID_SIZE, j * GRID_SIZE>> :
        i \in randint(0, GRID_WIDTH - 1), j \in randint(0, GRID_HEIGHT - 1)}

\* A loop exit test that forgets the occupied cells.
PositionAcceptedAlways(position, occupied_positions) == TRUE

\* A loop exit test that is inverted: it keeps only occupied cells.
PositionAcceptedInverted(position, occupied_positions) ==
    /\ occupied_positions # <<>>
    /\ position \in {occupied_positions[i] : i \in 1..Len(occupied_positions)}

\* The loop exit test of Apple.randomize_position.
PositionAccepted(position, occupied_positions) ==
    \/ occupied_positions = None
    \/ Len(occupied_positions) = 0
    \/ position \notin Range(occupied_positions)

\* opposite_directions.get(direction) in Snake.update_direction.
opposite_directions(d) ==
    CASE d = UP -> DOWN
      [] d = DOWN -> UP
      [] d = LEFT -> RIGHT
      [] d = RIGHT -> LEFT
      [] OTHER -> None

\* An update_direction without the test for the opposite direction.
update_direction_unchecked(direction, next_direction) ==
    IF next_direction # None THEN next_direction ELSE direction

\* Snake.update_direction: the new value of snake.direction.
update_direction(direction, next_direction) ==
    IF next_direction # None
    THEN IF next_direction # opposite_directions(direction)
         THEN next_direction
         ELSE direction
    ELSE direction

\* Snake.get_head_position.
get_head_position(positions) == positions[1]

\* A new head that does not wrap around the right and bottom edges.
new_head_unwrapped(positions, direction) ==
    <<positions[1][1] + direction[1] * GRID_SIZE,
      positions[1][2] + direction[2] * GRID_SIZE>>

\* The new head computed by Snake.move.
new_head(positions, direction) ==
    <<(get_head_position(positions)[1] + direction[1] * GRID_SIZE) % SCREEN_WIDTH,
      (get_head_position(positions)[2] + direction[2] * GRID_SIZE) % SCREEN_HEIGHT>>

\* An insert that appends the new head: positions.append(new_head).
inserted_at_end(positions, direction) ==
    positions \o <<new_head(positions, direction)>>

\* positions after positions.insert(0, new_head).
inserted(positions, direction) == <<new_head(positions, direction)>> \o positions

\* A move that pops the tail one cell early: len(positions) >= length.
move_pops_early(positions, direction, length) ==
    IF Len(inserted(positions, direction)) >= length
    THEN [positions |-> SubSeq(inserted(positions, direction), 1, Len(positions)),
          last |-> inserted(positions, direction)[Len(positions) + 1]]
    ELSE [positions |-> inserted(positions, direction), last |-> None]

\* Snake.move: the pair of snake.positions and snake.last it leaves.
move(positions, direction, length) ==
    IF Len(inserted(positions, direction)) > length
    THEN [positions |-> SubSeq(inserted(positions, direction), 1, Len(positions)),
          last |-> inserted(positions, direction)[Len(positions) + 1]]
    ELSE [positions |-> inserted(positions, direction), last |-> None]

\* A collision test that leaves out the last cell: positions[1:-1].
self_collision_without_tail(positions) ==
    positions[1] \in {positions[i] : i \in 2..(Len(positions) - 1)}

\* main: get_head_position() in snake.positions[1:].
self_collision(positions) ==
    get_head_position(positions) \in Range(Tail(positions))

\* A growth of two cells per apple.
grown_by_two(length) == length + 2

\* main: snake.length += 1.
grown(length) == length + 1

\* The events pg.event.get() can deliver.
Keys == {"K_UP", "K_DOWN", "K_LEFT", "K_RIGHT", "K_ESCAPE", "K_SPACE"}
Events ==
    {[type |-> "QUIT", key |-> "NONE"], [type |-> "KEYUP", key |-> "NONE"]}
        \cup {[type |-> "KEYDOWN", key |-> k] : k \in Keys}
NoEvent == [type |-> "NOEVENT", key |-> "NONE"]

\* key_direction_map.get(key) in handle_keys.
key_direction_map(key) ==
    CASE key = "K_UP" -> UP
      [] key = "K_DOWN" -> DOWN
      [] key = "K_LEFT" -> LEFT
      [] key = "K_RIGHT" -> RIGHT
      [] OTHER -> None

\* Whether handle_keys raises SystemExit on the event.
raises_exit(e) ==
    \/ e.type = "QUIT"
    \/ e.type = "KEYDOWN" /\ e.key = "K_ESCAPE"

\* snake.direction after handle_keys has processed one event.
direction_after_event(direction, e) ==
    IF e.type = "KEYDOWN" /\ key_direction_map(e.key) # None
    THEN update_direction(direction, key_direction_map(e.key))
    ELSE direction

(* ---- state ------------------------------------------------------------ *)
VARIABLES
    positions,       \* snake.positions, head first
    length,          \* snake.length
    direction,       \* snake.direction
    last,            \* snake.last
    apple_position,  \* apple.position
    event,           \* the event handle_keys is processing
    branch,          \* the branch of main's if / elif taken in this tick
    prev,            \* the snake and the apple as the last draw showed them
    pc               \* the place of main's control

vars == <<screen, positions, length, direction, last, apple_position, event,
          branch, prev, pc>>

Snapshot ==
    [positions |-> positions, length |-> length, direction |-> direction,
     apple_position |-> apple_position]

\* A reset that keeps the vacated cell of the last move.
reset_keeps_last ==
    [length |-> 1, positions |-> <<DefaultPosition>>, direction |-> RIGHT,
     last |-> last]

\* Snake.reset: the fields it assigns (self.position is never reassigned).
reset ==
    [length |-> 1, positions |-> <<DefaultPosition>>, direction |-> RIGHT,
     last |-> None]

\* snake = Snake(), whose constructor resets a snake that has not moved yet;
\* apple = Apple(...) up to its call of randomize_position.
Init ==
    /\ screen \in Boards
    /\ positions = <<DefaultPosition>>
    /\ length = 1
    /\ direction = RIGHT
    /\ last = None
    /\ apple_position = DefaultPosition
    /\ event = NoEvent
    /\ branch = "start"
    /\ prev = [positions |-> <<DefaultPosition>>, length |-> 1,
               direction |-> RIGHT, apple_position |-> DefaultPosition]
    /\ pc = "randomize_position"

(* ---- actions ---------------------------------------------------------- *)
\* One iteration of the loop of Apple.randomize_position.
Randomize ==
    /\ pc = "randomize_position"
    /\ \E p \in SampledPositions :
        /\ apple_position' = p
        /\ pc' = IF PositionAccepted(p, positions)
                 THEN "draw" ELSE "randomize_position"
    /\ UNCHANGED <<screen, positions, length, direction, last, event, branch, prev>>

\* The drawing that ends the construction or a tick, and clock.tick.
Draw ==
    /\ pc = "draw"
    /\ prev' = Snapshot
    /\ branch' = "pending"
    /\ pc' = "handle_keys"
    /\ UNCHANGED <<screen, positions, length, direction, last, apple_position, event>>

\* handle_keys: one iteration of the loop over the events.
HandleEvent ==
    /\ pc = "handle_keys"
    /\ \E e \in Events :
        /\ event' = e
        /\ IF raises_exit(e)
           THEN /\ pc' = "exit"
                /\ UNCHANGED direction
           ELSE /\ pc' = "handle_keys"
                /\ direction' = direction_after_event(direction, e)
    /\ UNCHANGED <<screen, positions, length, last, apple_position, branch, prev>>

\* handle_keys: the events are exhausted; snake.move().
Move ==
    /\ pc = "handle_keys"
    /\ positions' = move(positions, direction, length).positions
    /\ last' = move(positions, direction, length).last
    /\ event' = NoEvent
    /\ pc' = "check"
    /\ UNCHANGED <<screen, length, direction, apple_position, branch, prev>>

\* main: the head is on the apple.
Eat ==
    /\ pc = "check"
    /\ get_head_position(positions) = apple_position
    /\ length < MaxLength \/ screen = SmallBoard
    /\ length' = grown(length)
    /\ branch' = "eat"
    /\ pc' = "randomize_position"
    /\ UNCHANGED <<screen, positions, direction, last, apple_position, event, prev>>

\* main: the head is on another cell of the snake; Snake.reset.
Collide ==
    /\ pc = "check"
    /\ get_head_position(positions) # apple_position
    /\ self_collision(positions)
    /\ length' = reset.length
    /\ positions' = reset.positions
    /\ direction' = reset.direction
    /\ last' = reset.last
    /\ branch' = "reset"
    /\ pc' = "randomize_position"
    /\ UNCHANGED <<screen, apple_position, event, prev>>

\* A plain tick that re-places the apple all the same.
NoBranchRandomizes ==
    /\ pc = "check"
    /\ get_head_position(positions) # apple_position
    /\ ~self_collision(positions)
    /\ branch' = "none"
    /\ pc' = "randomize_position"
    /\ UNCHANGED <<screen, positions, length, direction, last, apple_position, event, prev>>

\* main: neither branch.
NoBranch ==
    /\ pc = "check"
    /\ get_head_position(positions) # apple_position
    /\ ~self_collision(positions)
    /\ branch' = "none"
    /\ pc' = "draw"
    /\ UNCHANGED <<screen, positions, length, direction, last, apple_position, event, prev>>

Next ==
    \/ Randomize
    \/ Draw
    \/ HandleEvent
    \/ Move
    \/ Eat
    \/ Collide
    \/ NoBranch

Spec == Init /\ [][Next]_vars

\* An iteration of the loop of randomize_position that draws a cell off the
\* occupied ones.
RandomizeFree ==
    /\ Randomize
    /\ apple_position' \notin Range(positions)

\* random.randint is fair: every cell that the loop can draw for ever is
\* drawn at some time; so, while a cell off the occupied ones exists, one is
\* drawn at some time.
FairSpec == Spec /\ WF_vars(RandomizeFree)

(* ---- properties ------------------------------------------------------- *)
\* The exact opposite of a direction, as a vector.
Reverse(d) == <<0 - d[1], 0 - d[2]>>

NoDuplicates(s) == Cardinality(Range(s)) = Len(s)

OnBoard(c) ==
    /\ c[1] \in 0..(SCREEN_WIDTH - 1) /\ c[1] % GRID_SIZE = 0
    /\ c[2] \in 0..(SCREEN_HEIGHT - 1) /\ c[2] % GRID_SIZE = 0

\* The construction or a tick of the main loop has just ended.
TickEnded == pc = "draw"

\* C1: in the initial state and at the end of every tick the apple is not on
\* a cell of the snake.
C1_AppleOffSnake ==
    TickEnded => apple_position \notin Range(positions)

C1_Witness ==
    /\ TickEnded /\ branch = "eat" /\ Len(positions) >= 2
    /\ apple_position \notin Range(positions)

\* C2: at the end of every tick no cell occurs twice in snake.positions.
C2_NoDuplicateCells ==
    TickEnded => NoDuplicates(positions)

C2_Witness ==
    /\ TickEnded /\ branch = "none" /\ Len(positions) = 3
    /\ NoDuplicates(positions)

\* C3: a tick in which the moved head is off the apple and on another cell of
\* the snake takes the reset branch, and ends with the snake reset to the
\* centre cell, length 1, heading RIGHT, no vacated cell, and with the apple
\* on a cell other than the centre.
C3_CollisionResets ==
    /\ [][(pc = "check" /\ positions[1] # apple_position
             /\ positions[1] \in Range(Tail(positions)))
           => (branch' = "reset" /\ pc' = "randomize_position")]_vars
    /\ [](branch = "reset" /\ pc \in {"randomize_position", "draw"}
           => /\ positions = <<DefaultPosition>>
              /\ length = 1
              /\ direction = RIGHT
              /\ last = None
              /\ (pc = "draw" => apple_position # DefaultPosition))

C3_Witness ==
    /\ TickEnded /\ branch = "reset"
    /\ Len(prev.positions) = 3
    /\ positions = <<DefaultPosition>>

\* C4: a tick in which the moved head is on the apple takes the eating
\* branch, which adds exactly 1 to snake.length and moves the apple to a cell
\* that is not its old one and not a cell of the snake.
C4_EatGrowsByOne ==
    /\ [][(pc = "check" /\ positions[1] = apple_position)
           => (branch' = "eat" /\ length' = length + 1)]_vars
    /\ [](TickEnded /\ branch = "eat"
           => /\ length = prev.length + 1
              /\ apple_position # prev.apple_position
              /\ apple_position \notin Range(positions)
              /\ positions[1] = prev.apple_position)

C4_Witness ==
    /\ TickEnded /\ branch = "eat"
    /\ length = prev.length + 1 /\ length >= 3

\* C5: every cell of the snake and the apple lie on the grid inside the
\* board, and a move across an edge comes back in on the opposite edge.
C5_OnBoardWithWrap ==
    /\ \A c \in Range(positions) \cup {apple_position} : OnBoard(c)
    /\ pc = "check" =>
        /\ (direction = RIGHT /\ prev.positions[1][1] = SCREEN_WIDTH - GRID_SIZE)
              => positions[1][1] = 0
        /\ (direction = LEFT /\ prev.positions[1][1] = 0)
              => positions[1][1] = SCREEN_WIDTH - GRID_SIZE
        /\ (direction = DOWN /\ prev.positions[1][2] = SCREEN_HEIGHT - GRID_SIZE)
              => positions[1][2] = 0
        /\ (direction = UP /\ prev.positions[1][2] = 0)
              => positions[1][2] = SCREEN_HEIGHT - GRID_SIZE

C5_Witness ==
    /\ pc = "check" /\ direction = LEFT
    /\ prev.positions[1][1] = 0
    /\ positions[1][1] = SCREEN_WIDTH - GRID_SIZE

\* C6: one call of update_direction with the exact opposite of the current
\* direction changes nothing; with another heading it sets the direction to
\* it and changes nothing else; nothing is kept for later: the move that
\* follows does not change the direction.
C6_UpdateDirectionStep ==
    [][/\ (pc = "handle_keys" /\ event'.type = "KEYDOWN"
             /\ event'.key \in {"K_UP", "K_DOWN", "K_LEFT", "K_RIGHT"})
          => /\ direction' = (IF key_direction_map(event'.key) = Reverse(direction)
                               THEN direction
                               ELSE key_direction_map(event'.key))
             /\ UNCHANGED <<screen, positions, length, last, apple_position>>
       /\ (pc = "handle_keys" /\ pc' = "check") => direction' = direction]_vars

C6_Witness ==
    /\ pc = "handle_keys" /\ event.type = "KEYDOWN" /\ event.key = "K_LEFT"
    /\ direction = RIGHT /\ Len(positions) = 2

\* C7: at the end of every tick snake.direction is not the exact opposite of
\* what it was at the end of the tick before.
C7_NoReversalBetweenTicks ==
    (TickEnded /\ branch # "start") => direction # Reverse(prev.direction)

\* C8: on a board of at least 3 by 3 cells the head that Snake.move computes
\* is never the cell that was behind the head before the move.
C8_NoMoveIntoNeck ==
    (pc = "check" /\ GRID_WIDTH >= 3 /\ GRID_HEIGHT >= 3
        /\ Len(prev.positions) >= 2)
    => positions[1] # prev.positions[2]

\* C9: when randomize_position runs with occupied cells that do not cover the
\* board, its loop exits, under fair sampling, with the apple on a cell that
\* is not occupied.
C9_RandomizeTerminates ==
    (pc = "randomize_position"
        /\ Cardinality(Range(positions)) < GRID_WIDTH * GRID_HEIGHT)
    ~> (pc = "draw" /\ apple_position \notin Range(positions))

C9_Witness ==
    /\ pc = "randomize_position" /\ branch = "eat"
    /\ apple_position \in Range(Tail(positions))

\* C10: after Snake.move the head is never both on the apple and on another
\* cell of the snake.
C10_EatAndCollideExclusive ==
    pc = "check" =>
        ~(positions[1] = apple_position /\ positions[1] \in Range(Tail(positions)))

C10_Witness ==
    /\ pc = "check" /\ positions[1] = apple_position /\ Len(positions) >= 2
    /\ positions[1] \notin Range(Tail(positions))

\* C11: at the end of a tick len(snake.positions) is snake.length, or
\* snake.length - 1 if the tick ate; so 1 <= len(positions) <= length in every
\* state; and a tick that does not reset and follows a tick that did not eat
\* leaves len(positions) as it was.
C11_BodyLengthFollowsLength ==
    /\ 1 <= Len(positions) /\ Len(positions) <= length
    /\ (TickEnded /\ branch # "eat") => Len(positions) = length
    /\ (TickEnded /\ branch = "eat") => Len(positions) = length - 1
    /\ (TickEnded /\ branch \in {"none", "eat"}
            /\ Len(prev.positions) = prev.length)
        => Len(positions) = Len(prev.positions)

C11_Witness ==
    /\ TickEnded /\ branch = "eat" /\ Len(prev.positions) = prev.length
    /\ Len(positions) = 2 /\ length = 3

\* The cell (in cell units) of a pixel position.
CellOf(c) == <<c[1] \div GRID_SIZE, c[2] \div GRID_SIZE>>

\* The cell one step from cell c in direction d, with wrap-around.
StepCell(c, d) == <<(c[1] + d[1]) % GRID_WIDTH, (c[2] + d[2]) % GRID_HEIGHT>>

\* C12: Snake.move puts the new head one cell ahead (modulo the board); when
\* the old body plus the head is longer than snake.length the last cell is
\* dropped and kept in snake.last, otherwise the whole old body stays and
\* snake.last is None.
C12_MoveOneCell ==
    pc = "check" =>
        /\ CellOf(positions[1]) = StepCell(CellOf(prev.positions[1]), direction)
        /\ positions[1] = <<CellOf(positions[1])[1] * GRID_SIZE,
                            CellOf(positions[1])[2] * GRID_SIZE>>
        /\ IF Len(prev.positions) + 1 > length
           THEN /\ Tail(positions)
                     = SubSeq(prev.positions, 1, Len(prev.positions) - 1)
                /\ last = prev.positions[Len(prev.positions)]
           ELSE /\ Tail(positions) = prev.positions
                /\ last = None

\* The scenario of the claim, moved onto the board: a straight snake of three
\* cells heading RIGHT.
C12_Witness ==
    /\ pc = "check" /\ direction = RIGHT /\ length = 3
    /\ Len(prev.positions) = 3
    /\ prev.positions[1][1] = 2 * GRID_SIZE
    /\ prev.positions[2] = <<GRID_SIZE, prev.positions[1][2]>>
    /\ prev.positions[3] = <<0, prev.positions[1][2]>>
    /\ positions = <<<<3 * GRID_SIZE, prev.positions[1][2]>>,
                     prev.positions[1], prev.positions[2]>>
    /\ last = prev.positions[3]

\* C13: whenever randomize_position runs, the occupied cells do not cover the
\* whole board (so its loop can exit).
C13_BoardNeverFull ==
    pc = "randomize_position"
    => Cardinality(Range(positions)) < GRID_WIDTH * GRID_HEIGHT

\* C14: a tick whose moved head is neither on the apple nor on the snake
\* leaves apple.position and snake.length as they were; the apple moves only
\* in the placement that follows eating or a reset (or the construction), and
\* snake.length changes only by +1 on eating or to 1 on a reset.
C14_PlainTickFrame ==
    /\ [](TickEnded /\ branch = "none"
           => /\ apple_position = prev.apple_position
              /\ length = prev.length)
    /\ [][(pc = "check" /\ positions[1] # apple_position
             /\ positions[1] \notin Range(Tail(positions)))
           => (branch' = "none" /\ pc' = "draw")]_vars
    /\ [][apple_position' # apple_position
           => (pc = "randomize_position" /\ branch \in {"start", "eat", "reset"})]_vars
    /\ [][length' # length
           => \/ branch' = "eat" /\ length' = length + 1
              \/ branch' = "reset" /\ length' = 1]_vars

C14_Witness ==
    /\ TickEnded /\ branch = "none" /\ length = 3
    /\ apple_position = prev.apple_position
    /\ positions # prev.positions

\* C15: at the end of a tick the vacated cell snake.last, when there is one,
\* is not a cell of the snake.
C15_VacatedCellOffSnake ==
    (TickEnded /\ branch # "start" /\ last # None)
    => last \notin Range(positions)

\* C16: at the end of a tick the apple is not on the vacated cell snake.last.
C16_AppleOffVacatedCell ==
    (TickEnded /\ branch # "start" /\ last # None)
    => apple_position # last

====
